---- MODULE Spec2Model ----
(***************************************************************************)
(* Parksy (src/app.py): the parking-candidate aggregation and ranking      *)
(* pipeline together with the stateful conversation / follow-up engine.    *)
(*                                                                         *)
(* Text is a sequence of one-character strings, so that lower(), the       *)
(* substring test `in`, str.replace, str.strip and re.search are computed  *)
(* rather than assumed.  Coordinates are integers in units of 1e-5 degree. *)
(* Money is an integer number of pence.  An Optional value is <<>> (None)  *)
(* or <<v>> (the value v).                                                 *)
(***************************************************************************)
EXTENDS Integers, Sequences, FiniteSets, TLC

-----------------------------------------------------------------------------
(* Text primitives                                                         *)

UpperChars == <<"A","B","C","D","E","F","G","H","I","J","K","L","M","N","O","P","Q","R","S","T","U","V","W","X","Y","Z">>

LowerChars == <<"a","b","c","d","e","f","g","h","i","j","k","l","m","n","o","p","q","r","s","t","u","v","w","x","y","z">>

\* str.lower() on one character (ASCII letters)
lower_char(c) ==
    IF \E i \in 1..26 : UpperChars[i] = c
    THEN LowerChars[CHOOSE i \in 1..26 : UpperChars[i] = c]
    ELSE c

\* str.lower()
lower(s) == [i \in 1..Len(s) |-> lower_char(s[i])]

\* Python's `sub in s` on strings
Contains(sub, s) ==
    \E i \in 0..(Len(s) - Len(sub)) : SubSeq(s, i + 1, i + Len(sub)) = sub

\* any(term in s for term in terms)
ContainsAny(terms, s) == \E k \in 1..Len(terms) : Contains(terms[k], s)

WhiteSpace == {" ", "\t", "\n"}

RECURSIVE lstrip(_)
lstrip(s) == IF s # <<>> /\ Head(s) \in WhiteSpace THEN lstrip(Tail(s)) ELSE s

RECURSIVE rstrip(_)
rstrip(s) ==
    IF s # <<>> /\ s[Len(s)] \in WhiteSpace THEN rstrip(SubSeq(s, 1, Len(s) - 1)) ELSE s

\* str.strip()
strip(s) == rstrip(lstrip(s))

\* str.replace(old, '') : every occurrence of old is removed, left to right
RECURSIVE remove_all(_, _)
remove_all(s, old) ==
    IF Len(s) < Len(old) \/ old = <<>> THEN s
    ELSE IF SubSeq(s, 1, Len(old)) = old
         THEN remove_all(SubSeq(s, Len(old) + 1, Len(s)), old)
         ELSE <<Head(s)>> \o remove_all(Tail(s), old)

\* Optional values
None == <<>>

Some(v) == <<v>>

-----------------------------------------------------------------------------
(* Regular expressions as used by extract_location_from_query: a matcher   *)
(* that lists the matches of a pattern at a position in the order in which *)
(* Python's backtracking engine would try them (greedy: longest first,     *)
(* lazy: shortest first, alternatives left to right).  A match is          *)
(* [e |-> end offset, g |-> group 1 (None until it is captured)].          *)

Lit(w) == [t |-> "lit", w |-> w]

Cls(cs) == [t |-> "in", cs |-> cs]

NotCls(cs) == [t |-> "notin", cs |-> cs]

Cat(xs) == [t |-> "cat", xs |-> xs]

Alt(xs) == [t |-> "alt", xs |-> xs]

Plus(a) == [t |-> "plus", a |-> a]

LazyPlus(a) == [t |-> "lazyplus", a |-> a]

Star(a) == [t |-> "star", a |-> a]

LazyStar(a) == [t |-> "lazystar", a |-> a]

Opt(a) == [t |-> "opt", a |-> a]

Cap(a) == [t |-> "cap", a |-> a]

Eos == [t |-> "eos"]

\* the matches rs of a continuation, keeping the group captured before it
Carry(r, rs) ==
    [k \in 1..Len(rs) |->
        [e |-> rs[k].e, g |-> IF rs[k].g # None THEN rs[k].g ELSE r.g]]

RECURSIVE Match(_, _, _)
RECURSIVE MatchSeq(_, _, _)
RECURSIVE MatchAlt(_, _, _)
RECURSIVE Chain(_, _, _)

\* the matches of rest after each of the matches rs, in the order of rs
Chain(rs, rest, s) ==
    IF Len(rs) = 0 THEN <<>>
    ELSE IF Len(rs) = 1 THEN Carry(rs[1], MatchSeq(rest, s, rs[1].e))
    ELSE LET half == Len(rs) \div 2
         IN  Chain(SubSeq(rs, 1, half), rest, s) \o Chain(SubSeq(rs, half + 1, Len(rs)), rest, s)

MatchSeq(xs, s, i) ==
    IF Len(xs) = 0 THEN <<[e |-> i, g |-> None]>>
    ELSE Chain(Match(Head(xs), s, i), Tail(xs), s)

MatchAlt(xs, s, i) ==
    IF Len(xs) = 0 THEN <<>>
    ELSE Match(Head(xs), s, i) \o MatchAlt(Tail(xs), s, i)

\* the repetitions of the patterns are all of a character class a ("in" or
\* "notin"), which matches one character and captures nothing
one_char_matches(a, c) == IF a.t = "in" THEN c \in a.cs ELSE c \notin a.cs

\* the number of characters from offset i on that the character class a matches
run_length(a, s, i) ==
    CHOOSE n \in 0..(Len(s) - i) :
        /\ \A j \in 1..n : one_char_matches(a, s[i + j])
        /\ (i + n = Len(s) \/ ~one_char_matches(a, s[i + n + 1]))

\* one or more repetitions of a character class: every prefix of the run,
\* the longest first when greedy, the shortest first when lazy
run_matches(a, s, i, greedy) ==
    LET n == run_length(a, s, i)
    IN  [k \in 1..n |-> [e |-> IF greedy THEN i + n + 1 - k ELSE i + k, g |-> None]]

\* matches of re in s starting at offset i (0-based), re.IGNORECASE in force
Match(re, s, i) ==
    LET here == <<[e |-> i, g |-> None]>>
        next == <<[e |-> i + 1, g |-> None]>>
    IN  CASE re.t = "lit" ->
               IF i + Len(re.w) <= Len(s)
                    /\ lower(SubSeq(s, i + 1, i + Len(re.w))) = lower(re.w)
               THEN <<[e |-> i + Len(re.w), g |-> None]>> ELSE <<>>
          [] re.t = "in" -> IF i < Len(s) /\ s[i + 1] \in re.cs THEN next ELSE <<>>
          [] re.t = "notin" -> IF i < Len(s) /\ s[i + 1] \notin re.cs THEN next ELSE <<>>
          [] re.t = "eos" -> IF i = Len(s) THEN here ELSE <<>>
          [] re.t = "cat" -> MatchSeq(re.xs, s, i)
          [] re.t = "alt" -> MatchAlt(re.xs, s, i)
          [] re.t = "plus" -> run_matches(re.a, s, i, TRUE)
          [] re.t = "lazyplus" -> run_matches(re.a, s, i, FALSE)
          [] re.t = "star" -> run_matches(re.a, s, i, TRUE) \o here
          [] re.t = "lazystar" -> here \o run_matches(re.a, s, i, FALSE)
          [] re.t = "opt" -> Match(re.a, s, i) \o here
          [] re.t = "cap" ->
               LET rs == Match(re.a, s, i)
               IN  [k \in 1..Len(rs) |->
                      [e |-> rs[k].e, g |-> Some(SubSeq(s, i + 1, rs[k].e))]]

\* the least number of a non-empty set of numbers
least(ns) == CHOOSE n \in ns : \A m \in ns : n <= m

\* the first of the matches found at the leftmost offset that has one, else None
leftmost(matches_at) ==
    IF \A j \in DOMAIN matches_at : matches_at[j] = <<>> THEN None
    ELSE Some(Head(matches_at[least({j \in DOMAIN matches_at : matches_at[j] # <<>>})]))

\* re.search from offset i on
re_search_from(re, s, i) == leftmost([j \in i..Len(s) |-> Match(re, s, j)])

re_search(re, s) == re_search_from(re, s, 0)

-----------------------------------------------------------------------------
(* extract_location_from_query                                             *)

Ws == Cls(WhiteSpace)

Punct == {"?", ".", ",", "!"}

AnyChar == NotCls({"\n"})

\* ([^?.,!]+?)
Phrase == Cap(LazyPlus(NotCls(Punct)))

\* (?:at|near|in|around|by|close to|next to)
Prepositions ==
    Alt(<<Lit(<<"a","t">>), Lit(<<"n","e","a","r">>), Lit(<<"i","n">>), Lit(<<"a","r","o","u","n","d">>), Lit(<<"b","y">>),
          Lit(<<"c","l","o","s","e"," ","t","o">>), Lit(<<"n","e","x","t"," ","t","o">>)>>)

\* (?:\s+(?:at|for|during)|\s*[?.,!]|$)
PhraseEnd ==
    Alt(<<Cat(<<Plus(Ws), Alt(<<Lit(<<"a","t">>), Lit(<<"f","o","r">>), Lit(<<"d","u","r","i","n","g">>)>>)>>),
          Cat(<<Star(Ws), Cls(Punct)>>),
          Eos>>)

\* (?:\s*[?.,!]|$)
SentenceEnd == Alt(<<Cat(<<Star(Ws), Cls(Punct)>>), Eos>>)

\* the eight patterns, in the order they are tried
patterns ==
    << Cat(<<Prepositions, Plus(Ws), Phrase, PhraseEnd>>),
       Cat(<<Lit(<<"p","a","r","k">>), Plus(Ws), Prepositions, Plus(Ws), Phrase, PhraseEnd>>),
       Cat(<<Lit(<<"p","a","r","k","i","n","g">>), Plus(Ws), Prepositions, Plus(Ws), Phrase, PhraseEnd>>),
       Cat(<<Alt(<<Lit(<<"w","h","e","r","e">>), Lit(<<"h","o","w">>), Lit(<<"c","a","n">>)>>), Plus(Ws), LazyStar(AnyChar),
             Alt(<<Lit(<<"a","t">>), Lit(<<"n","e","a","r">>), Lit(<<"i","n">>), Lit(<<"a","r","o","u","n","d">>), Lit(<<"b","y">>)>>),
             Plus(Ws), Phrase, SentenceEnd>>),
       Cat(<<Lit(<<"g","o","i","n","g">>), Plus(Ws), Lit(<<"t","o">>), Plus(Ws), Phrase, PhraseEnd>>),
       Cat(<<Lit(<<"v","i","s","i","t","i","n","g">>), Plus(Ws), Phrase, PhraseEnd>>),
       Cat(<<Lit(<<"s","p","o","t">>), Opt(Lit(<<"s">>)), Plus(Ws),
             Alt(<<Lit(<<"i","n">>), Lit(<<"a","t">>), Lit(<<"n","e","a","r">>)>>), Plus(Ws), Phrase, SentenceEnd>>),
       Cat(<<Lit(<<"s","p","a","c","e">>), Opt(Lit(<<"s">>)), Plus(Ws),
             Alt(<<Lit(<<"i","n">>), Lit(<<"a","t">>), Lit(<<"n","e","a","r">>)>>), Plus(Ws), Phrase, SentenceEnd>>) >>

StopWords == {<<"t","h","e","r","e">>, <<"h","e","r","e">>, <<"i","t">>, <<"t","h","i","s">>, <<"t","h","a","t">>, <<"a">>, <<"t","h","e">>}

\* the group of pattern k, stripped, when the pattern matches and gives a location
location_of_pattern(k, user_input) ==
    LET m == re_search(patterns[k], user_input)
    IN  IF m # None /\ lower(strip(m[1].g[1])) \notin StopWords
        THEN Some(strip(m[1].g[1]))
        ELSE None

\* the first of the locations found that is not None, else None
first_found(located) ==
    IF \A j \in DOMAIN located : located[j] = None THEN None
    ELSE located[least({j \in DOMAIN located : located[j] # None})]

\* the first pattern whose match, stripped, is not a stop word gives the location
extract_from(k, user_input) ==
    first_found([j \in k..Len(patterns) |-> location_of_pattern(j, user_input)])

extract_location_from_query(user_input) == extract_from(1, user_input)

-----------------------------------------------------------------------------
(* Numbers as text: f"{x:.2f}", f"{x:.4f}" and float(text)                 *)

DigitChars == <<"0","1","2","3","4","5","6","7","8","9">>

\* the decimal digits of a natural number
RECURSIVE decimal(_)
decimal(n) ==
    IF n < 10 THEN <<DigitChars[n + 1]>>
    ELSE decimal(n \div 10) \o <<DigitChars[(n % 10) + 1]>>

\* n written with exactly w digits (n < 10^w)
RECURSIVE zero_padded(_, _)
zero_padded(n, w) ==
    IF w = 0 THEN <<>> ELSE zero_padded(n \div 10, w - 1) \o <<DigitChars[(n % 10) + 1]>>

digit_value(c) == (CHOOSE d \in 1..10 : DigitChars[d] = c) - 1

RECURSIVE digits_value(_)
digits_value(ds) ==
    IF ds = <<>> THEN 0
    ELSE digits_value(SubSeq(ds, 1, Len(ds) - 1)) * 10 + digit_value(ds[Len(ds)])

Abs(x) == IF x < 0 THEN -x ELSE x

\* round to nearest, ties to even
round_half_even(n, d) ==
    LET q == n \div d
        r == n % d
    IN  IF 2 * r > d \/ (2 * r = d /\ q % 2 = 1) THEN q + 1 ELSE q

\* f"{x:.4f}" for a coordinate x given in units of 1e-5 degree.  The sign of a
\* negative number is written even when its digits round to zero ("-0.0000").
format_4f(x) ==
    LET q == round_half_even(Abs(x), 10)
    IN  (IF x < 0 THEN <<"-">> ELSE <<>>)
            \o decimal(q \div 10000) \o <<".">> \o zero_padded(q % 10000, 4)

\* f"{x:.2f}" for an amount x given in pence
format_2f(pence) == decimal(pence \div 100) \o <<".">> \o zero_padded(pence % 100, 2)

\* float(text) for an unsigned decimal text with at most two decimals, in pence
parse_float(text) ==
    IF \E i \in 1..Len(text) : text[i] = "."
    THEN LET dot  == CHOOSE i \in 1..Len(text) : text[i] = "."
             frac == SubSeq(text, dot + 1, Len(text))
         IN  digits_value(SubSeq(text, 1, dot - 1)) * 100
               + (IF Len(frac) = 0 THEN 0
                  ELSE IF Len(frac) = 1 THEN digit_value(frac[1]) * 10
                  ELSE digits_value(SubSeq(frac, 1, 2)))
    ELSE digits_value(text) * 100

\* the two characters the source writes in front of every price
CurrencySign == <<"NOT SIGN", "POUND SIGN">>

-----------------------------------------------------------------------------
(* _calculate_distance                                                     *)
(*                                                                         *)
(* The haversine distance int(c * r), r = 6371000 m, in fixed point.  For  *)
(* two points a few kilometres apart c * r is the length of the chord      *)
(* (north-south leg, east-west leg scaled by the cosine of the latitude)   *)
(* to well below a centimetre; the legs are kept in decimetres.            *)

\* the r in lo..hi with r * r <= n < (r + 1) * (r + 1)
isqrt_between(n, lo, hi) ==
    CHOOSE r \in lo..hi : r * r <= n /\ (r = 46340 \/ (r + 1) * (r + 1) > n)

\* floor of the square root, n < 2^31: first to a multiple of 216, then exactly
isqrt(n) ==
    LET coarse == CHOOSE a \in 0..214 :
                      /\ (216 * a) * (216 * a) <= n
                      /\ (a = 214 \/ (216 * (a + 1)) * (216 * (a + 1)) > n)
    IN  isqrt_between(n, 216 * coarse, IF coarse = 214 THEN 46340 ELSE 216 * coarse + 215)

\* decimetres along a meridian per 1e-5 degree, times 10^4 (r * pi / 180 = 111194.93 m)
DecimetresPerUnitE4 == 111195

\* decimetres along a parallel per 1e-5 degree, times 10^5: the above times
\* cos(latitude), at the latitudes of the gazetteer
east_decimetres_per_unit_e5(lat) ==
    CASE lat = 5147790 -> 692540
      [] lat = 5175200 -> 688371

\* lat, lng in units of 1e-5 degree; a north-south leg of at most
\* 3200 units (3.5 km) and an east-west leg of at most 3000 units
_calculate_distance(lat1, lng1, lat2, lng2) ==
    LET dlat  == Abs(lat2 - lat1)
        dlng  == Abs(lng2 - lng1)
        north == (dlat * DecimetresPerUnitE4) \div 10000
        east  == (dlng * east_decimetres_per_unit_e5(lat1)) \div 100000
    IN  isqrt(north * north + east * east) \div 10

-----------------------------------------------------------------------------
(* Candidate normalizer and scorer                                         *)
(*                                                                         *)
(* A raw provider record is [title, position |-> [lat, lng], label]: title *)
(* is <<>> when the record has no (or an empty) 'title', label is None     *)
(* when the record has no address label.                                   *)

_estimate_pricing(parking_type, distance) ==
    LET base_rate ==
            IF parking_type = "parking-garage" THEN (IF distance < 500 THEN 400 ELSE 320)
            ELSE IF parking_type = "on-street-parking" THEN (IF distance < 500 THEN 300 ELSE 240)
            ELSE IF parking_type = "ev-charging" THEN 280
            ELSE (IF distance < 500 THEN 260 ELSE 200)
    IN  [hourly_rate |-> CurrencySign \o format_2f(base_rate),
         daily_rate  |-> CurrencySign \o format_2f(base_rate * 7),
         estimated   |-> TRUE]

_estimate_availability(parking_type, current_hour) ==
    IF 8 <= current_hour /\ current_hour <= 18
    THEN (IF parking_type = "on-street-parking" THEN "Limited" ELSE "Good")
    ELSE "Excellent"

_get_features(parking_type, distance) ==
    (IF parking_type = "parking-garage" THEN <<"Covered", "Secure">>
     ELSE IF parking_type = "ev-charging" THEN <<"EV Charging", "Electric Vehicle Friendly">>
     ELSE IF parking_type = "on-street-parking" THEN <<"Street Parking">>
     ELSE <<>>)
    \o (IF distance < 200 THEN <<"Very Close">>
        ELSE IF distance < 500 THEN <<"Walking Distance">>
        ELSE <<>>)

Min(a, b) == IF a < b THEN a ELSE b

Max(a, b) == IF a > b THEN a ELSE b

\* a faulty variant of _calculate_score: the distance steps include their bounds
_calculate_score_inclusive(distance, parking_type) ==
    LET by_distance ==
            IF distance <= 200 THEN 25
            ELSE IF distance <= 500 THEN 20
            ELSE IF distance <= 1000 THEN 15
            ELSE 0
        by_type ==
            IF parking_type = "parking-garage" THEN 10
            ELSE IF parking_type = "ev-charging" THEN 15
            ELSE 0
    IN  Max(0, Min(100, 50 + by_distance + by_type))

_calculate_score(distance, parking_type) ==
    LET by_distance ==
            IF distance < 200 THEN 25
            ELSE IF distance < 500 THEN 20
            ELSE IF distance < 1000 THEN 15
            ELSE 0
        by_type ==
            IF parking_type = "parking-garage" THEN 10
            ELSE IF parking_type = "ev-charging" THEN 15
            ELSE 0
    IN  Max(0, Min(100, 50 + by_distance + by_type))

ParkingTerms == <<<<"p","a","r","k">>, <<"g","a","r","a","g","e">>, <<"c","a","r">>, <<"s","p","a","c","e">>, <<"c","h","a","r","g","i","n","g">>>>

GarageTerms == <<<<"g","a","r","a","g","e">>, <<"m","u","l","t","i">>, <<"s","t","o","r","y">>>>

StreetTerms == <<<<"s","t","r","e","e","t">>, <<"r","o","a","d">>, <<"m","e","t","e","r">>>>

ElectricTerms == <<<<"e","l","e","c","t","r","i","c">>, <<"e","v">>, <<"c","h","a","r","g","i","n","g">>>>

AddressNotAvailable == <<"A","d","d","r","e","s","s"," ","n","o","t"," ","a","v","a","i","l","a","b","l","e">>

\* a faulty variant of parking_type_of: the ev terms are looked for before the
\* street terms
parking_type_of_ev_first(title_lower) ==
    IF ContainsAny(GarageTerms, title_lower) THEN "parking-garage"
    ELSE IF ContainsAny(ElectricTerms, title_lower) THEN "ev-charging"
    ELSE IF ContainsAny(StreetTerms, title_lower) THEN "on-street-parking"
    ELSE "parking-lot"

\* lines 163-169
parking_type_of(title_lower) ==
    IF ContainsAny(GarageTerms, title_lower) THEN "parking-garage"
    ELSE IF ContainsAny(StreetTerms, title_lower) THEN "on-street-parking"
    ELSE IF ContainsAny(ElectricTerms, title_lower) THEN "ev-charging"
    ELSE "parking-lot"

\* a faulty variant of _process_parking_spot: a record at exactly 3000 m is
\* skipped too
_process_parking_spot_from_3000(spot, user_lat, user_lng, current_hour) ==
    LET distance    == _calculate_distance(user_lat, user_lng, spot.position.lat, spot.position.lng)
        title       == spot.title
        title_lower == lower(title)
        parking_type == parking_type_of(title_lower)
    IN  IF distance >= 3000 \/ title = <<>> THEN None
        ELSE IF ~ContainsAny(ParkingTerms, title_lower) THEN None
        ELSE Some([name         |-> title,
                   address      |-> IF spot.label = None THEN AddressNotAvailable ELSE spot.label[1],
                   distance     |-> distance,
                   walking_time |-> Max(1, distance \div 80),
                   position     |-> spot.position,
                   parking_type |-> parking_type,
                   pricing      |-> _estimate_pricing(parking_type, distance),
                   availability |-> _estimate_availability(parking_type, current_hour),
                   features     |-> _get_features(parking_type, distance),
                   score        |-> _calculate_score(distance, parking_type)])

\* Some(spot_data), or None when the record is skipped
_process_parking_spot(spot, user_lat, user_lng, current_hour) ==
    LET distance    == _calculate_distance(user_lat, user_lng, spot.position.lat, spot.position.lng)
        title       == spot.title
        title_lower == lower(title)
        parking_type == parking_type_of(title_lower)
    IN  IF distance > 3000 \/ title = <<>> THEN None
        ELSE IF ~ContainsAny(ParkingTerms, title_lower) THEN None
        ELSE Some([name         |-> title,
                   address      |-> IF spot.label = None THEN AddressNotAvailable ELSE spot.label[1],
                   distance     |-> distance,
                   walking_time |-> Max(1, distance \div 80),
                   position     |-> spot.position,
                   parking_type |-> parking_type,
                   pricing      |-> _estimate_pricing(parking_type, distance),
                   availability |-> _estimate_availability(parking_type, current_hour),
                   features     |-> _get_features(parking_type, distance),
                   score        |-> _calculate_score(distance, parking_type)])

-----------------------------------------------------------------------------
(* Deduplicator                                                            *)

\* f"{lat:.4f},{lng:.4f}"
position_key(pos) == format_4f(pos.lat) \o <<",">> \o format_4f(pos.lng)

_is_duplicate(new_spot, existing_spots) ==
    \E k \in 1..Len(existing_spots) :
        position_key(existing_spots[k].position) = position_key(new_spot.position)

-----------------------------------------------------------------------------
(* Aggregator: search_parking                                              *)
(*                                                                         *)
(* The places collaborator answers the eight requests of one search with   *)
(* responses[1..8] (five text queries, then three category codes).  A      *)
(* response is [raised, status, items]: raised when requests.get fails     *)
(* (transport error, timeout), else the HTTP status and the 'items' of the *)
(* body (None when the body has no 'items').                               *)

search_queries == <<"parking", "car park", "parking garage", "street parking", "parking lot">>

category_ids == <<"700-7600-0322", "700-7600-0323", "700-7600-0000">>

\* the inner loop over the items of one response
RECURSIVE accept_items(_, _, _, _, _)
accept_items(all_spots, items, lat, lng, current_hour) ==
    IF items = <<>> THEN all_spots
    ELSE LET spot_data == _process_parking_spot(Head(items), lat, lng, current_hour)
         IN  accept_items(
                 IF spot_data # None /\ ~_is_duplicate(spot_data[1], all_spots)
                 THEN Append(all_spots, spot_data[1]) ELSE all_spots,
                 Tail(items), lat, lng, current_hour)

\* text pass response handling without raise_for_status of line 104
text_items_any_status(response) ==
    IF response.raised THEN <<>>
    ELSE IF response.items = None THEN <<>>
    ELSE response.items[1]

\* the records one text query hands to _process_parking_spot (lines 103-109):
\* raise_for_status() turns a 4xx/5xx status into a skipped pass
text_items(response) ==
    IF response.raised \/ response.status >= 400 THEN <<>>
    ELSE IF response.items = None THEN <<>>
    ELSE response.items[1]

\* the records one category code hands to _process_parking_spot (lines 130-133):
\* only a 200 is read; data.get('items', [])
category_items(response) ==
    IF response.raised \/ response.status # 200 THEN <<>>
    ELSE IF response.items = None THEN <<>> ELSE response.items[1]

\* one text query
text_pass(all_spots, response, lat, lng, current_hour) ==
    accept_items(all_spots, text_items(response), lat, lng, current_hour)

\* one category code
category_pass(all_spots, response, lat, lng, current_hour) ==
    accept_items(all_spots, category_items(response), lat, lng, current_hour)

\* seq[-1]
last_of(seq) == seq[Len(seq)]

\* the loop over search_queries from the k-th query on (lines 94-116): all_spots
\* as it is before each query and after the last
RECURSIVE text_lists(_, _, _, _, _, _)
text_lists(all_spots, k, responses, lat, lng, current_hour) ==
    <<all_spots>>
      \o (IF k > Len(search_queries) THEN <<>>
          ELSE text_lists(text_pass(all_spots, responses[k], lat, lng, current_hour),
                          k + 1, responses, lat, lng, current_hour))

\* all_spots after the loop over search_queries
text_passes(all_spots, k, responses, lat, lng, current_hour) ==
    last_of(text_lists(all_spots, k, responses, lat, lng, current_hour))

\* the loop over category_ids from the k-th code on (lines 121-138): all_spots
\* as it is before each code and after the last
RECURSIVE category_lists(_, _, _, _, _, _)
category_lists(all_spots, k, responses, lat, lng, current_hour) ==
    <<all_spots>>
      \o (IF k > Len(category_ids) THEN <<>>
          ELSE category_lists(
                   category_pass(all_spots, responses[Len(search_queries) + k],
                                 lat, lng, current_hour),
                   k + 1, responses, lat, lng, current_hour))

\* all_spots after the loop over category_ids
category_passes(all_spots, k, responses, lat, lng, current_hour) ==
    last_of(category_lists(all_spots, k, responses, lat, lng, current_hour))

\* a faulty variant of backup_needed: the category codes are searched after five
\* accepted spots too
backup_up_to_five(all_spots) == Len(all_spots) <= 5

\* line 119, evaluated once, after the loop over search_queries
backup_needed(all_spots) == Len(all_spots) < 5

\* the accumulated list before it is ranked
accumulate(lat, lng, responses, current_hour) ==
    LET after_text == text_passes(<<>>, 1, responses, lat, lng, current_hour)
    IN  IF backup_needed(after_text)
        THEN category_passes(after_text, 1, responses, lat, lng, current_hour)
        ELSE after_text

\* the records one search hands to _process_parking_spot, in the order of the
\* calls at lines 110 and 134
RECURSIVE records_read_from(_, _)
records_read_from(k, responses) ==
    IF k > Len(search_queries) THEN <<>>
    ELSE text_items(responses[k]) \o records_read_from(k + 1, responses)

RECURSIVE category_records_read_from(_, _)
category_records_read_from(k, responses) ==
    IF k > Len(category_ids) THEN <<>>
    ELSE category_items(responses[Len(search_queries) + k])
            \o category_records_read_from(k + 1, responses)

records_read(lat, lng, responses, current_hour) ==
    records_read_from(1, responses)
      \o (IF backup_needed(text_passes(<<>>, 1, responses, lat, lng, current_hour))
          THEN category_records_read_from(1, responses) ELSE <<>>)

\* the calls of _process_parking_spot for the records read, each with its result
RECURSIVE calls_for(_, _, _, _)
calls_for(read, lat, lng, current_hour) ==
    IF read = <<>> THEN <<>>
    ELSE <<[spot      |-> Head(read),
            spot_data |-> _process_parking_spot(Head(read), lat, lng, current_hour)]>>
           \o calls_for(Tail(read), lat, lng, current_hour)

\* the calls of _process_parking_spot during one search, each with its result
normalizer_calls(lat, lng, responses, current_hour) ==
    calls_for(records_read(lat, lng, responses, current_hour), lat, lng, current_hour)

\* the number of requests one search sends to the places collaborator
search_requests(lat, lng, responses, current_hour) ==
    Len(search_queries)
      + (IF backup_needed(text_passes(<<>>, 1, responses, lat, lng, current_hour))
         THEN Len(category_ids) ELSE 0)

\* the requests of the loop over search_queries from the k-th on (line 103),
\* each with the number of spots accepted when it is sent
RECURSIVE text_requests(_, _, _, _, _, _)
text_requests(all_spots, k, responses, lat, lng, current_hour) ==
    IF k > Len(search_queries) THEN <<>>
    ELSE <<[param |-> "q", value |-> search_queries[k], accepted_before |-> Len(all_spots)]>>
           \o text_requests(text_pass(all_spots, responses[k], lat, lng, current_hour),
                            k + 1, responses, lat, lng, current_hour)

\* the requests of the loop over category_ids from the k-th on (line 130)
RECURSIVE category_requests(_, _, _, _, _, _)
category_requests(all_spots, k, responses, lat, lng, current_hour) ==
    IF k > Len(category_ids) THEN <<>>
    ELSE <<[param |-> "categories", value |-> category_ids[k],
            accepted_before |-> Len(all_spots)]>>
           \o category_requests(
                  category_pass(all_spots, responses[Len(search_queries) + k],
                                lat, lng, current_hour),
                  k + 1, responses, lat, lng, current_hour)

\* the requests one search sends to the places collaborator, in order
requests_sent(lat, lng, responses, current_hour) ==
    text_requests(<<>>, 1, responses, lat, lng, current_hour)
      \o (IF backup_needed(text_passes(<<>>, 1, responses, lat, lng, current_hour))
          THEN category_requests(text_passes(<<>>, 1, responses, lat, lng, current_hour),
                                 1, responses, lat, lng, current_hour)
          ELSE <<>>)

\* list.sort(key=score, reverse=True): stable, equal scores keep their order
\* a faulty variant of insert_by_score: a spot goes before the spots of equal
\* score, so the sort is not stable
RECURSIVE insert_before_equals(_, _)
insert_before_equals(sorted, spot) ==
    IF sorted = <<>> THEN <<spot>>
    ELSE IF Head(sorted).score > spot.score
         THEN <<Head(sorted)>> \o insert_before_equals(Tail(sorted), spot)
         ELSE <<spot>> \o sorted

RECURSIVE insert_by_score(_, _)
insert_by_score(sorted, spot) ==
    IF sorted = <<>> THEN <<spot>>
    ELSE IF Head(sorted).score >= spot.score
         THEN <<Head(sorted)>> \o insert_by_score(Tail(sorted), spot)
         ELSE <<spot>> \o sorted

RECURSIVE sort_by_score(_)
sort_by_score(spots) ==
    IF spots = <<>> THEN <<>>
    ELSE insert_by_score(sort_by_score(SubSeq(spots, 1, Len(spots) - 1)), spots[Len(spots)])

\* spots[:n]
first_n(spots, n) == SubSeq(spots, 1, Min(n, Len(spots)))

\* a faulty variant of search_parking (sensitivity of C5): the list is not cut
search_parking_uncut(lat, lng, responses, current_hour) ==
    sort_by_score(accumulate(lat, lng, responses, current_hour))

\* lines 140-142
search_parking(lat, lng, responses, current_hour) ==
    first_n(sort_by_score(accumulate(lat, lng, responses, current_hour)), 10)

-----------------------------------------------------------------------------
(* Geo resolver boundary: geocode_location                                 *)
(*                                                                         *)
(* The geocoder's response is [raised, status, items]; an item is          *)
(* [lat, lng, label, city, district] with city and district Optional.      *)

\* Some(location_info), or None (no item, HTTP error, transport error)
geocode_location(location, response) ==
    IF response.raised \/ response.status >= 400 THEN None
    ELSE IF response.items = <<>> THEN None
    ELSE LET item == response.items[1]
         IN  Some([lat      |-> item.lat,
                   lng      |-> item.lng,
                   address  |-> item.label,
                   city     |-> IF item.city = None THEN <<>> ELSE item.city[1],
                   district |-> IF item.district = None THEN <<>> ELSE item.district[1]])

-----------------------------------------------------------------------------
(* Synthetic backfill: generate_mock_data                                  *)
(*                                                                         *)
(* rnd holds the eight results of random.randint, in the order drawn.      *)

generate_mock_data(location_info, rnd) ==
    LET city == location_info.city
    IN  << [name         |-> city \o <<" ","M","u","l","t","i","-","S","t","o","r","y"," ","C","a","r"," ","P","a","r","k">>,
            address      |-> <<"H","i","g","h"," ","S","t","r","e","e","t",","," ">> \o city,
            distance     |-> rnd[1],
            walking_time |-> rnd[2],
            parking_type |-> "parking-garage",
            pricing      |-> [hourly_rate |-> CurrencySign \o <<"3",".","5","0">>,
                              daily_rate  |-> CurrencySign \o <<"1","8",".","0","0">>],
            availability |-> "Good",
            score        |-> 85,
            features     |-> <<"Covered", "Secure", "CCTV">>],
           [name         |-> city \o <<" ","P","a","y"," ","&"," ","D","i","s","p","l","a","y"," ","Z","o","n","e">>,
            address      |-> <<"M","a","r","k","e","t"," ","S","t","r","e","e","t",","," ">> \o city,
            distance     |-> rnd[3],
            walking_time |-> rnd[4],
            parking_type |-> "on-street-parking",
            pricing      |-> [hourly_rate |-> CurrencySign \o <<"2",".","8","0">>,
                              daily_rate  |-> <<"M","a","x"," ","4"," ","h","o","u","r","s">>],
            availability |-> "Limited",
            score        |-> 70,
            features     |-> <<"Pay & Display", "Time Limited">>],
           [name         |-> city \o <<" ","S","h","o","p","p","i","n","g"," ","C","e","n","t","r","e"," ","C","a","r"," ","P","a","r","k">>,
            address      |-> <<"R","e","t","a","i","l"," ","P","a","r","k",","," ">> \o city,
            distance     |-> rnd[5],
            walking_time |-> rnd[6],
            parking_type |-> "parking-lot",
            pricing      |-> [hourly_rate |-> CurrencySign \o <<"2",".","2","0">>,
                              daily_rate  |-> CurrencySign \o <<"1","2",".","0","0">>],
            availability |-> "Excellent",
            score        |-> 75,
            features     |-> <<"Large Capacity", "Free Sundays">>],
           [name         |-> city \o <<" ","C","o","u","n","c","i","l"," ","C","a","r"," ","P","a","r","k">>,
            address      |-> <<"T","o","w","n"," ","C","e","n","t","r","e",","," ">> \o city,
            distance     |-> rnd[7],
            walking_time |-> rnd[8],
            parking_type |-> "parking-lot",
            pricing      |-> [hourly_rate |-> CurrencySign \o <<"1",".","8","0">>,
                              daily_rate  |-> CurrencySign \o <<"1","0",".","0","0">>],
            availability |-> "Good",
            score        |-> 72,
            features     |-> <<"Budget Option", "Council Run">>] >>

\* the ranges of the eight random.randint calls
MockRanges ==
    << [lo |-> 80, hi |-> 300], [lo |-> 2, hi |-> 4], [lo |-> 50, hi |-> 250], [lo |-> 1, hi |-> 3],
       [lo |-> 150, hi |-> 400], [lo |-> 3, hi |-> 6], [lo |-> 200, hi |-> 450], [lo |-> 3, hi |-> 6] >>

-----------------------------------------------------------------------------
(* Follow-up resolver: handle_follow_up_question                           *)

\* Python's min(xs, key=...): the first element with the least key.
\* key is a sequence of the keys of xs; the result is an index into xs.
RECURSIVE py_min_from(_, _, _)
py_min_from(key, k, best) ==
    IF k > Len(key) THEN best
    ELSE py_min_from(key, k + 1, IF key[k] < key[best] THEN k ELSE best)

\* a faulty variant of py_min (sensitivity of C9): the last element with the least key
RECURSIVE py_min_last_from(_, _, _)
py_min_last_from(key, k, best) ==
    IF k > Len(key) THEN best
    ELSE py_min_last_from(key, k + 1, IF key[k] <= key[best] THEN k ELSE best)

py_min_last(key) == py_min_last_from(key, 2, 1)

py_min(key) == py_min_from(key, 2, 1)

\* float(x['pricing']['hourly_rate'].replace(<currency sign>, '')), in pence
hourly_rate_value(spot) == parse_float(remove_all(spot.pricing.hourly_rate, CurrencySign))

\* a faulty variant of FollowUpWords (sensitivity of C1): a word is missing
FollowUpWords_without_recommend == <<<<"b","e","s","t">>, <<"s","u","g","g","e","s","t">>, <<"w","h","i","c","h">>>>

\* line 351
FollowUpWords == <<<<"b","e","s","t">>, <<"r","e","c","o","m","m","e","n","d">>, <<"s","u","g","g","e","s","t">>, <<"w","h","i","c","h">>>>

\* a session is [history, last_parking_search]; last_parking_search is None or
\* Some([spots, location]).  The answer is Some(text) or None; the text is the
\* template of lines 356-363, kept as the values it interpolates.
handle_follow_up_question(conv, user_message, session_id) ==
    IF session_id \notin DOMAIN conv THEN None
    ELSE IF conv[session_id].last_parking_search = None THEN None
    ELSE LET spots     == conv[session_id].last_parking_search[1].spots
             location  == conv[session_id].last_parking_search[1].location
             msg_lower == lower(user_message)
         IN  IF ContainsAny(FollowUpWords, msg_lower)
             THEN LET top_spot == spots[1]
                      cheapest == spots[py_min([k \in 1..Len(spots) |-> hourly_rate_value(spots[k])])]
                      closest  == spots[py_min([k \in 1..Len(spots) |-> spots[k].walking_time])]
                  IN  Some([kind          |-> "top picks",
                            location      |-> location,
                            overall_best  |-> top_spot.name,
                            cheapest      |-> cheapest.name,
                            cheapest_rate |-> cheapest.pricing.hourly_rate,
                            closest       |-> closest.name,
                            closest_walk  |-> closest.walking_time])
             ELSE None

-----------------------------------------------------------------------------
(* Response composer boundary: generate_ai_response                        *)
(*                                                                         *)
(* The language model's response is [raised, status, choices]: choices is  *)
(* the list of message contents of the body (<<>> when the body has no     *)
(* 'choices' or an empty list).                                            *)

\* the lines of the templated summary for one spot (lines 437-441)
summary_item(spot) ==
    [name         |-> spot.name,
     address      |-> spot.address,
     walking_time |-> spot.walking_time,
     hourly_rate  |-> spot.pricing.hourly_rate,
     features     |-> first_n(spot.features, 2)]

\* a faulty variant of generate_ai_response without the except clause of lines
\* 447-451: the error of the request is the outcome of the call
generate_ai_response_uncaught(user_input, parking_data, location_info, response) ==
    IF response.raised \/ response.status >= 400
    THEN [kind |-> "exception"]
    ELSE IF response.choices # <<>>
    THEN [kind |-> "model", content |-> response.choices[1]]
    ELSE IF parking_data # <<>>
    THEN [kind  |-> "summary",
          count |-> Len(parking_data),
          items |-> [k \in 1..Min(5, Len(parking_data)) |-> summary_item(parking_data[k])]]
    ELSE [kind |-> "trouble with my response system"]

generate_ai_response(user_input, parking_data, location_info, response) ==
    IF response.raised \/ response.status >= 400
    THEN IF parking_data # <<>>
         THEN [kind |-> "found, response issues", count |-> Len(parking_data)]
         ELSE [kind |-> "technical difficulties"]
    ELSE IF response.choices # <<>>
    THEN [kind |-> "model", content |-> response.choices[1]]
    ELSE IF parking_data # <<>>
    THEN [kind  |-> "summary",
          count |-> Len(parking_data),
          items |-> [k \in 1..Min(5, Len(parking_data)) |-> summary_item(parking_data[k])]]
    ELSE [kind |-> "trouble with my response system"]

-----------------------------------------------------------------------------
(* The collaborators and the users: the inputs of the model                *)

Sessions == {"s1", "s2"}

MsgNear == <<"p","a","r","k","i","n","g"," ","n","e","a","r"," ","G","r","e","e","n","w","i","c","h">>

MsgWhich == <<"w","h","i","c","h"," ","i","s"," ","b","e","s","t","?">>

MsgRecommend == <<"r","e","c","o","m","m","e","n","d"," ","p","a","r","k","i","n","g"," ","i","n"," ","O","x","f","o","r","d">>

MsgHello == <<"h","e","l","l","o">>

Messages == {MsgNear, MsgWhich, MsgRecommend, MsgHello}

\* what a collaborator's HTTP call can come back with
Raised == [raised |-> TRUE, status |-> 0, items |-> None]

Http(status, items) == [raised |-> FALSE, status |-> status, items |-> items]

\* the geocoder knows two places; it can be up, find nothing, or be down
Gazetteer ==
    { [query |-> <<"G","r","e","e","n","w","i","c","h">>,
        item  |-> [lat |-> 5147790, lng |-> 0, label |-> <<"G","r","e","e","n","w","i","c","h",","," ","L","o","n","d","o","n">>,
                   city |-> Some(<<"G","r","e","e","n","w","i","c","h">>), district |-> None]],
      [query |-> <<"O","x","f","o","r","d">>,
        item  |-> [lat |-> 5175200, lng |-> -125770, label |-> <<"O","x","f","o","r","d",","," ","O","x","f","o","r","d","s","h","i","r","e">>,
                   city |-> Some(<<"O","x","f","o","r","d">>), district |-> None]] }

GeoBehaviours == {"up", "empty", "down"}

\* the response to the query for a location
GeoResponse(behaviour, location) ==
    IF behaviour = "down" THEN Raised
    ELSE IF behaviour = "empty" THEN Http(200, <<>>)
    ELSE Http(200, IF \E g \in Gazetteer : g.query = location
                   THEN <<(CHOOSE g \in Gazetteer : g.query = location).item>>
                   ELSE <<>>)

\* the language model answers, answers without choices, answers with a status
\* of failure, or the request raises (transport error, timeout)
ModelResponses ==
    { [raised |-> FALSE, status |-> 200, choices |-> <<<<"S","u","r","e","!">>>>],
      [raised |-> FALSE, status |-> 200, choices |-> <<>>],
      [raised |-> FALSE, status |-> 503, choices |-> <<<<"S","u","r","e","!">>>>],
      [raised |-> TRUE, status |-> 0, choices |-> <<>>] }

\* the draws of random.randint in generate_mock_data: all lowest, all highest
MockDraws ==
    { [k \in 1..Len(MockRanges) |-> MockRanges[k].lo],
      [k \in 1..Len(MockRanges) |-> MockRanges[k].hi] }

\* a raw record of the places provider, dlat and dlng units away from (lat, lng)
Item(title, label, dlat, dlng, lat, lng) ==
    [title |-> title, label |-> label, position |-> [lat |-> lat + dlat, lng |-> lng + dlng]]

\* lot, 400 m
ItemA(lat, lng) == Item(<<"P","a","r","k"," ","A">>, Some(<<"1"," ","P","a","r","k"," ","R","o","w">>), 360, 3, lat, lng)

\* same 4-decimal cell as A unless the origin is on lng 0
ItemB(lat, lng) == Item(<<"P","a","r","k"," ","B">>, None, 360, -3, lat, lng)

\* garage, 400 m
ItemC(lat, lng) == Item(<<"G","a","r","a","g","e"," ","C">>, Some(<<"2"," ","M","i","l","l"," ","L","a","n","e">>), 361, 50, lat, lng)

\* same cell as C
ItemCx(lat, lng) == Item(<<"G","a","r","a","g","e"," ","X">>, Some(<<"2"," ","M","i","l","l"," ","L","a","n","e">>), 363, 52, lat, lng)

\* on-street, 100 m
ItemD(lat, lng) == Item(<<"R","o","a","d"," ","P","a","r","k"," ","D">>, None, 90, 0, lat, lng)

\* no parking term
ItemLib(lat, lng) == Item(<<"L","i","b","r","a","r","y">>, Some(<<"9"," ","B","o","o","k"," ","S","t">>), 50, 0, lat, lng)

\* no title
ItemNt(lat, lng) == Item(<<>>, Some(<<"3"," ","N","a","m","e","l","e","s","s">>), 60, 0, lat, lng)

\* 3001 m
ItemFar(lat, lng) == Item(<<"P","a","r","k"," ","F">>, None, 2699, 0, lat, lng)

\* ev-charging, exactly 3000 m
ItemE(lat, lng) == Item(<<"E","V"," ","P","a","r","k"," ","E">>, Some(<<"5"," ","V","o","l","t"," ","W","a","y">>), 2698, 0, lat, lng)

\* lot, 1000 m
ItemG(lat, lng) == Item(<<"P","a","r","k"," ","G">>, None, 900, 0, lat, lng)

\* lot, 999 m
ItemH(lat, lng) == Item(<<"P","a","r","k"," ","H">>, None, 899, 10, lat, lng)

\* garage, 199 m
ItemI(lat, lng) == Item(<<"G","a","r","a","g","e"," ","I">>, None, 179, -10, lat, lng)

\* lot, 500 m
ItemJ(lat, lng) == Item(<<"C","a","r"," ","S","p","a","c","e"," ","J">>, None, 450, 0, lat, lng)

\* lot, 499 m
ItemK(lat, lng) == Item(<<"P","a","r","k"," ","K">>, None, 449, 10, lat, lng)

\* on-street, 200 m
ItemL(lat, lng) == Item(<<"M","e","t","e","r"," ","P","a","r","k"," ","L">>, None, 180, 10, lat, lng)

\* ev-charging, 600 m
ItemM(lat, lng) == Item(<<"C","h","a","r","g","i","n","g"," ","P","a","r","k"," ","M">>, None, 540, 0, lat, lng)

\* lot, 1501 m
ItemN(lat, lng) == Item(<<"P","a","r","k"," ","N">>, None, 1350, 0, lat, lng)

\* garage, 2001 m
ItemO(lat, lng) == Item(<<"S","t","o","r","y"," ","P","a","r","k"," ","O">>, None, 1800, 10, lat, lng)

\* lot, 33 m
ItemP(lat, lng) == Item(<<"P","a","r","k"," ","P">>, None, 30, 0, lat, lng)

\* lot, 2501 m
ItemQ(lat, lng) == Item(<<"P","a","r","k"," ","Q">>, None, 2250, 0, lat, lng)

\* garage, 2012 m, found after O with the same score
ItemR(lat, lng) == Item(<<"G","a","r","a","g","e"," ","R">>, None, 1810, -10, lat, lng)

\* garage, street and ev terms, 2112 m
ItemS(lat, lng) == Item(<<"E","V"," ","G","a","r","a","g","e"," ","R","o","a","d"," ","S">>, None, 1900, 20, lat, lng)

\* street and ev terms, 2224 m
ItemT(lat, lng) == Item(<<"E","l","e","c","t","r","i","c"," ","S","t","r","e","e","t"," ","P","a","r","k"," ","T">>, None, 2000, -20, lat, lng)

\* what the places provider answers to the eight requests of one search around
\* (lat, lng): "outage" every request fails; "few" three valid records and two
\* duplicates; "many" sixteen valid records; "edge" exactly five valid records,
\* all from the text queries; "backup" two valid records from the text queries
\* and three more from the category codes
Scenarios == {"outage", "few", "many", "edge", "backup"}

PlacesResponses(scenario, lat, lng) ==
    CASE scenario = "outage" ->
          << Raised,
             Http(500, Some(<<ItemA(lat, lng)>>)),
             Raised,
             Http(503, None),
             Raised,
             Raised,
             Http(404, Some(<<ItemA(lat, lng)>>)),
             Http(500, None) >>
      [] scenario = "few" ->
          << Http(200, Some(<<ItemA(lat, lng), ItemC(lat, lng), ItemB(lat, lng), ItemLib(lat, lng), ItemD(lat, lng), ItemCx(lat, lng), ItemNt(lat, lng)>>)),
             Http(200, Some(<<ItemD(lat, lng), ItemA(lat, lng)>>)),
             Http(500, None),
             Http(200, Some(<<>>)),
             Raised,
             Http(200, Some(<<ItemC(lat, lng), ItemFar(lat, lng)>>)),
             Http(203, Some(<<ItemG(lat, lng)>>)),
             Http(200, None) >>
      [] scenario = "many" ->
          << Http(200, Some(<<ItemG(lat, lng), ItemN(lat, lng), ItemA(lat, lng), ItemC(lat, lng), ItemQ(lat, lng), ItemH(lat, lng)>>)),
             Http(200, Some(<<ItemA(lat, lng), ItemI(lat, lng), ItemG(lat, lng), ItemJ(lat, lng)>>)),
             Raised,
             Http(200, Some(<<ItemK(lat, lng), ItemL(lat, lng), ItemM(lat, lng), ItemS(lat, lng), ItemT(lat, lng)>>)),
             Http(200, Some(<<ItemLib(lat, lng), ItemO(lat, lng), ItemP(lat, lng), ItemR(lat, lng)>>)),
             Http(200, Some(<<ItemE(lat, lng)>>)),
             Http(200, Some(<<ItemE(lat, lng)>>)),
             Http(200, Some(<<ItemE(lat, lng)>>)) >>
      [] scenario = "edge" ->
          << Http(200, Some(<<ItemA(lat, lng), ItemC(lat, lng)>>)),
             Raised,
             Http(200, Some(<<ItemD(lat, lng), ItemK(lat, lng), ItemM(lat, lng)>>)),
             Http(200, Some(<<ItemA(lat, lng)>>)),
             Http(200, None),
             Http(200, Some(<<ItemG(lat, lng)>>)),
             Http(200, Some(<<ItemH(lat, lng)>>)),
             Http(200, Some(<<ItemN(lat, lng)>>)) >>
      [] scenario = "backup" ->
          << Http(200, Some(<<ItemN(lat, lng), ItemLib(lat, lng)>>)),
             Http(200, None),
             Http(200, Some(<<ItemG(lat, lng), ItemN(lat, lng)>>)),
             Raised,
             Http(404, Some(<<ItemA(lat, lng)>>)),
             Http(200, Some(<<ItemH(lat, lng), ItemE(lat, lng)>>)),
             Raised,
             Http(200, Some(<<ItemFar(lat, lng), ItemO(lat, lng), ItemE(lat, lng)>>)) >>

-----------------------------------------------------------------------------
(* Session store and process_query                                         *)

VARIABLES
    conversations,  \* self.conversations: session id -> [history, last_parking_search]
    turn,           \* the latest call of process_query: its arguments, what it returned,
                    \* the collaborator calls it made, what search_parking read,
                    \* accepted and returned, the backfill, the language model's
                    \* response, and the session store before the call
    turns,          \* the number of calls of process_query so far
    threads         \* the requests to /api/chat being served at the same time: for each
                    \* the position of its call of process_query and what the call did

vars == <<conversations, turn, turns, threads>>

\* the number of calls of process_query the model follows
MaxTurns == 2

NoSessions == [s \in {} |-> {}]

NewSession == [history |-> <<>>, last_parking_search |-> None]

\* lines 478-479: the session is created on the first message
with_session(conv, session_id) ==
    IF session_id \in DOMAIN conv THEN conv ELSE (session_id :> NewSession) @@ conv

\* a faulty variant of append_history: the entry goes to every session
append_history_everywhere(conv, session_id, user_input, assistant) ==
    [s \in DOMAIN conv |->
        [conv[s] EXCEPT !.history = Append(@, [user |-> user_input, assistant |-> assistant])]]

\* history.append({'user': ..., 'assistant': ...}) at lines 484, 495, 515, 554
append_history(conv, session_id, user_input, assistant) ==
    [conv EXCEPT ![session_id].history =
        Append(@, [user |-> user_input, assistant |-> assistant])]

\* what the collaborators do during one call: the geocoder's behaviour, the places
\* provider's behaviour, the random draws, the language model's response, the clock
Env(geo, scenario, rnd, model, current_hour) ==
    [geo |-> geo, scenario |-> scenario, rnd |-> rnd, model |-> model, hour |-> current_hour]

\* the result of a call that made no collaborator call
Quiet == [geocode_calls |-> 0, search_calls |-> 0, model_calls |-> 0,
          accepted |-> 0, parking_found |-> None, mock_data |-> <<>>,
          search |-> None, model |-> None]

\* datetime.datetime.now().hour at the time of a search: the last hour of the
\* day time window of _estimate_availability and the hour after it
Hours == {18, 19}

\* the graph of the function f on keys: the set of pairs <<k, f[k]>>
Tabulate(f, keys) == {<<k, f[k]>> : k \in keys}

\* extract_location_from_query and search_parking are pure: they are tabulated
\* over the inputs of the model, and process_query reads the tables
LocationRows ==
    Tabulate([user_input \in Messages |-> extract_location_from_query(user_input)], Messages)

LocationTable ==
    [user_input \in Messages |-> (CHOOSE row \in LocationRows : row[1] = user_input)[2]]

Origins == {<<g.item.lat, g.item.lng>> : g \in Gazetteer}

SearchRows ==
    Tabulate([k \in Origins \X Scenarios \X Hours |->
                 LET responses == PlacesResponses(k[2], k[1][1], k[1][2])
                 IN  [spots    |-> search_parking(k[1][1], k[1][2], responses, k[3]),
                      accepted |-> Len(accumulate(k[1][1], k[1][2], responses, k[3])),
                      all_spots |-> accumulate(k[1][1], k[1][2], responses, k[3]),
                      calls    |-> normalizer_calls(k[1][1], k[1][2], responses, k[3]),
                      requests |-> search_requests(k[1][1], k[1][2], responses, k[3]),
                      sent     |-> requests_sent(k[1][1], k[1][2], responses, k[3])]],
             Origins \X Scenarios \X Hours)

SearchTable ==
    [k \in Origins \X Scenarios \X Hours |-> (CHOOSE row \in SearchRows : row[1] = k)[2]]

\* a faulty variant of insufficient: only an empty result is backfilled
insufficient_when_empty(parking_data) == parking_data = <<>>

\* a faulty variant of insufficient (sensitivity of C6): five results backfilled too
insufficient_up_to_five(parking_data) == Len(parking_data) <= 5

\* line 502: too few results to show without backfill
insufficient(parking_data) == Len(parking_data) < 5

\* a faulty variant of stored_search (sensitivity of C4): the new spots are added
\* to those of the previous search
stored_search_merged(previous, parking_data, city) ==
    Some([spots    |-> (IF previous = None THEN <<>> ELSE previous[1].spots) \o parking_data,
          location |-> city])

\* lines 508-511: the value assigned to last_parking_search, whatever it held
stored_search(previous, parking_data, city) ==
    Some([spots |-> parking_data, location |-> city])

\* the search branch, lines 498-516; searched is what search_parking did: the
\* list it returned, its calls of _process_parking_spot, the spots it had
\* accepted (all_spots before the sort), the requests it sent
completed_search(conv, session_id, user_input, location_info, env, searched) ==
    LET found      == searched.spots
        mock_data  == IF insufficient(found) THEN generate_mock_data(location_info, env.rnd) ELSE <<>>
        parking_data == IF insufficient(found) THEN first_n(found \o mock_data, 10) ELSE found
        stored     == [conv EXCEPT ![session_id].last_parking_search =
                          stored_search(@, parking_data, location_info.city)]
        ai_response == generate_ai_response(user_input, parking_data, location_info, env.model)
    IN  [conversations |-> append_history(stored, session_id, user_input, ai_response),
         reply         |-> ai_response,
         path          |-> "search",
         geocode_calls |-> 1,
         search_calls  |-> searched.requests,
         model_calls   |-> 1,
         accepted      |-> searched.accepted,
         search        |-> Some([lat |-> location_info.lat, lng |-> location_info.lng,
                                 scenario |-> env.scenario, hour |-> env.hour,
                                 calls |-> searched.calls, all_spots |-> searched.all_spots,
                                 sent |-> searched.sent]),
         model         |-> Some(env.model),
         parking_found |-> Some(found),
         mock_data     |-> mock_data]

\* the general conversation branch, lines 519-559
general_conversation(conv, session_id, user_input, env) ==
    IF ~env.model.raised /\ env.model.status < 400 /\ env.model.choices # <<>>
    THEN LET ai_response == [kind |-> "model", content |-> env.model.choices[1]]
         IN  [Quiet EXCEPT !.model_calls = 1, !.model = Some(env.model)]
               @@ [conversations |-> append_history(conv, session_id, user_input, ai_response),
                   reply |-> ai_response, path |-> "chat"]
    ELSE [Quiet EXCEPT !.model_calls = 1, !.model = Some(env.model)]
           @@ [conversations |-> conv, reply |-> [kind |-> "greeting"], path |-> "chat"]

\* a faulty variant of location_not_found (sensitivity of C3): the search of the
\* session is forgotten
location_not_found_forgetting(conv, session_id, user_input, location) ==
    LET response == [kind |-> "trouble finding", location |-> location]
        cleared  == [conv EXCEPT ![session_id].last_parking_search = None]
    IN  [Quiet EXCEPT !.geocode_calls = 1]
          @@ [conversations |-> append_history(cleared, session_id, user_input, response),
              reply |-> response, path |-> "not_found"]

\* lines 493-496: the geocoder found nothing
location_not_found(conv, session_id, user_input, location) ==
    LET response == [kind |-> "trouble finding", location |-> location]
    IN  [Quiet EXCEPT !.geocode_calls = 1]
          @@ [conversations |-> append_history(conv, session_id, user_input, response),
              reply |-> response, path |-> "not_found"]

process_query(conv0, session_id, user_input, env) ==
    LET conv      == with_session(conv0, session_id)
        follow_up == handle_follow_up_question(conv, user_input, session_id)
        location  == LocationTable[user_input]
    IN  IF follow_up # None
        THEN Quiet @@ [conversations |-> append_history(conv, session_id, user_input, follow_up[1]),
                       reply |-> follow_up[1], path |-> "follow_up"]
        ELSE IF location # None /\ location[1] # <<>>
        THEN LET location_info == geocode_location(location[1], GeoResponse(env.geo, location[1]))
             IN  IF location_info = None
                 THEN location_not_found(conv, session_id, user_input, location[1])
                 ELSE completed_search(conv, session_id, user_input, location_info[1], env,
                                       SearchTable[<<<<location_info[1].lat, location_info[1].lng>>,
                                                     env.scenario, env.hour>>])
        ELSE general_conversation(conv, session_id, user_input, env)

-----------------------------------------------------------------------------
(* The state machine: users send messages to sessions, the collaborators   *)
(* answer as they please, the clock advances.                              *)

NoTurn ==
    [session |-> "", user_input |-> <<>>, path |-> "none", reply |-> None,
     geocode_calls |-> 0, search_calls |-> 0, model_calls |-> 0, accepted |-> 0,
     parking_found |-> None, mock_data |-> <<>>, search |-> None, model |-> None,
     before |-> NoSessions]

\* the number of requests the server handles at the same time
MaxThreads == 2

Threads == 1..MaxThreads

\* a thread that serves no request
Idle ==
    [pc |-> "idle", session |-> "", user_input |-> <<>>, fresh |-> FALSE,
     appended |-> None, stored |-> FALSE]

Init ==
    /\ conversations = NoSessions
    /\ turn = NoTurn
    /\ turns = 0
    /\ threads = [t \in Threads |-> Idle]

\* process_query(user_input, session_id) returns out, having taken path
Return(session_id, user_input, path, out) ==
    /\ out.path = path
    /\ conversations' = out.conversations
    /\ turn' = [session |-> session_id, user_input |-> user_input, path |-> out.path,
                reply |-> Some(out.reply),
                geocode_calls |-> out.geocode_calls, search_calls |-> out.search_calls,
                model_calls |-> out.model_calls, accepted |-> out.accepted,
                parking_found |-> out.parking_found, search |-> out.search,
                model |-> out.model,
                mock_data |-> out.mock_data, before |-> conversations]
    /\ turns' = turns + 1
    /\ UNCHANGED threads

AnyGeo == CHOOSE geo \in GeoBehaviours : TRUE

AnyDraw == CHOOSE rnd \in MockDraws : TRUE

AnyScenario == CHOOSE scenario \in Scenarios : TRUE

AnyModelResponse == CHOOSE model \in ModelResponses : TRUE

AnyHour == CHOOSE current_hour \in Hours : TRUE

\* a message answered from the cached search
FollowUp(session_id, user_input) ==
    /\ turns < MaxTurns
    /\ Return(session_id, user_input, "follow_up",
              process_query(conversations, session_id, user_input,
                            Env(AnyGeo, AnyScenario, AnyDraw, AnyModelResponse, AnyHour)))

\* a message with a location the geocoder does not resolve
LocationNotFound(session_id, user_input, geo) ==
    /\ turns < MaxTurns
    /\ Return(session_id, user_input, "not_found",
              process_query(conversations, session_id, user_input,
                            Env(geo, AnyScenario, AnyDraw, AnyModelResponse, AnyHour)))

\* a message with a location: geocode, search, backfill, store, compose
Search(session_id, user_input, geo, scenario, rnd, model, current_hour) ==
    /\ turns < MaxTurns
    /\ Return(session_id, user_input, "search",
              process_query(conversations, session_id, user_input,
                            Env(geo, scenario, rnd, model, current_hour)))

\* any other message
Chat(session_id, user_input, model) ==
    /\ turns < MaxTurns
    /\ Return(session_id, user_input, "chat",
              process_query(conversations, session_id, user_input,
                            Env(AnyGeo, AnyScenario, AnyDraw, model, AnyHour)))

Next ==
    \/ \E session_id \in Sessions, user_input \in Messages : FollowUp(session_id, user_input)
    \/ \E session_id \in Sessions, user_input \in Messages :
         \E geo \in GeoBehaviours :
            LocationNotFound(session_id, user_input, geo)
    \/ \E session_id \in Sessions, user_input \in Messages :
         \E geo \in GeoBehaviours,
            scenario \in Scenarios, rnd \in MockDraws, model \in ModelResponses,
            current_hour \in Hours :
            Search(session_id, user_input, geo, scenario, rnd, model, current_hour)
    \/ \E session_id \in Sessions, user_input \in Messages, model \in ModelResponses :
         Chat(session_id, user_input, model)

Spec == Init /\ [][Next]_vars

-----------------------------------------------------------------------------
(* Requests served at the same time: the web layer calls process_query on  *)
(* one Parksy object from every request thread (line 640), and no lock     *)
(* guards self.conversations.  A thread can be suspended between any two   *)
(* statements; lines 478 and 479 are followed one by one, lines 482-559    *)
(* as one step.                                                            *)

\* line 640: a request thread enters process_query(user_input, session_id)
Call(t, session_id, user_input) ==
    /\ threads[t].pc = "idle"
    /\ threads' = [threads EXCEPT ![t] =
                      [Idle EXCEPT !.pc = "check", !.session = session_id,
                                   !.user_input = user_input,
                                   !.fresh = session_id \notin DOMAIN conversations]]
    /\ UNCHANGED <<conversations, turn, turns>>

\* line 478: if session_id not in self.conversations
CheckSession(t) ==
    /\ threads[t].pc = "check"
    /\ threads' = [threads EXCEPT ![t].pc =
                      IF threads[t].session \notin DOMAIN conversations
                      THEN "create" ELSE "body"]
    /\ UNCHANGED <<conversations, turn, turns>>

\* line 479: self.conversations[session_id] = {'history': [], 'last_parking_search': None}
CreateSession(t) ==
    /\ threads[t].pc = "create"
    /\ conversations' =
          (threads[t].session :> NewSession)
             @@ [s \in DOMAIN conversations \ {threads[t].session} |-> conversations[s]]
    /\ threads' = [threads EXCEPT ![t].pc = "body"]
    /\ UNCHANGED <<turn, turns>>

\* the call of thread t ends with out: appended is the history entry it wrote,
\* stored tells whether it assigned last_parking_search
Finish(t, out) ==
    /\ conversations' = out.conversations
    /\ threads' = [threads EXCEPT
          ![t].pc = "done",
          ![t].appended =
              IF out.conversations[threads[t].session].history
                    # conversations[threads[t].session].history
              THEN Some([user |-> threads[t].user_input, assistant |-> out.reply])
              ELSE None,
          ![t].stored = (out.path = "search")]
    /\ UNCHANGED <<turn, turns>>

\* lines 482-559: the rest of the call
Body(t, env) ==
    /\ threads[t].pc = "body"
    /\ Finish(t, process_query(conversations, threads[t].session, threads[t].user_input, env))

NextConcurrent ==
    \/ \E t \in Threads, session_id \in Sessions, user_input \in Messages :
          Call(t, session_id, user_input)
    \/ \E t \in Threads : CheckSession(t)
    \/ \E t \in Threads : CreateSession(t)
    \/ \E t \in Threads, geo \in GeoBehaviours, scenario \in Scenarios,
            model \in ModelResponses :
          Body(t, Env(geo, scenario, AnyDraw, model, AnyHour))

SpecConcurrent == Init /\ [][NextConcurrent]_vars


-----------------------------------------------------------------------------
(* Properties.  turn describes the latest call of process_query, turn.before *)
(* the session store when it was called, conversations the store after it.  *)

Called == turn.path # "none"

last_search_of(conv, session_id) ==
    IF session_id \in DOMAIN conv THEN conv[session_id].last_parking_search ELSE None

history_of(conv, session_id) ==
    IF session_id \in DOMAIN conv THEN conv[session_id].history ELSE <<>>

\* the spots the caller's session had cached when process_query was called
cached_spots == last_search_of(turn.before, turn.session)[1].spots

\* the follow-up vocabulary as the specification lists it
FollowUpVocabulary == {<<"b","e","s","t">>, <<"r","e","c","o","m","m","e","n","d">>, <<"s","u","g","g","e","s","t">>, <<"w","h","i","c","h">>}

\* C1: process_query takes the follow-up path if and only if the session already
\* has a last search result and the message contains one of best, recommend,
\* suggest, which; on that path it calls neither the geocoder nor the search nor
\* the language model and leaves the last search result of the session as it was,
\* also when the message contains a location phrase.
C1_FollowUpRoute ==
    Called =>
        LET had  == last_search_of(turn.before, turn.session) # None
            asks == \E word \in FollowUpVocabulary : Contains(word, lower(turn.user_input))
        IN  /\ (turn.path = "follow_up") <=> (had /\ asks)
            /\ turn.path = "follow_up" =>
                  /\ turn.geocode_calls = 0
                  /\ turn.search_calls = 0
                  /\ turn.model_calls = 0
                  /\ last_search_of(conversations, turn.session)
                        = last_search_of(turn.before, turn.session)

\* a follow-up answered for a message that also names a location
C1_FollowUpWithLocation ==
    /\ turn.path = "follow_up"
    /\ LocationTable[turn.user_input] # None

\* C2: every call of process_query that returns a reply appends exactly one entry
\* {user text, assistant text} to the history of the session, the assistant text
\* being the reply returned, on every path (follow-up, location not found,
\* completed search, open conversation, also when the language model fails).
C2_EveryReplyRecorded ==
    Called =>
        history_of(conversations, turn.session)
            = Append(history_of(turn.before, turn.session),
                     [user |-> turn.user_input, assistant |-> turn.reply[1]])

\* C3: when the geocoder finds nothing for the extracted location, process_query
\* returns the clarifying question, calls neither the search nor the language
\* model, and leaves the last search result of the session as it was (unset if
\* there was none).
C3_NotFoundKeepsSearch ==
    turn.path = "not_found" =>
        /\ turn.reply[1] = [kind     |-> "trouble finding",
                            location |-> LocationTable[turn.user_input][1]]
        /\ turn.geocode_calls = 1
        /\ turn.search_calls = 0
        /\ turn.model_calls = 0
        /\ last_search_of(conversations, turn.session)
              = last_search_of(turn.before, turn.session)

\* the geocoder finds nothing in a session that has a search cached
C3_NotFoundAfterSearch ==
    /\ turn.path = "not_found"
    /\ last_search_of(turn.before, turn.session) # None

\* the city the geocoder gives for the location of the latest message
city_of_turn ==
    (CHOOSE g \in Gazetteer : g.query = LocationTable[turn.user_input][1]).item.city[1]

\* C4: after a completed search the last search result of the session consists of
\* the spots and the location of that search alone: it replaces the previous
\* result and keeps no spot of an earlier search.
C4_SearchOverwrites ==
    turn.path = "search" =>
        last_search_of(conversations, turn.session)
            = Some([spots    |-> first_n(turn.parking_found[1] \o turn.mock_data, 10),
                    location |-> city_of_turn])

\* a completed search in a session that had another result cached
C4_SecondSearch ==
    /\ turn.path = "search"
    /\ last_search_of(turn.before, turn.session) # None
    /\ last_search_of(turn.before, turn.session) # last_search_of(conversations, turn.session)

\* C5: in every reachable state the list search_parking returned and the list
\* stored as the last search result of any session have at most 10 entries,
\* however many records the passes returned, with or without backfill.
C5_AtMostTen ==
    /\ turn.parking_found # None => Len(turn.parking_found[1]) <= 10
    /\ \A session_id \in DOMAIN conversations :
          conversations[session_id].last_parking_search # None =>
              Len(conversations[session_id].last_parking_search[1].spots) <= 10

\* a search that accepted more than ten records
C5_MoreThanTenAccepted ==
    /\ turn.path = "search"
    /\ turn.accepted > 10
    /\ Len(last_search_of(conversations, turn.session)[1].spots) = 10

\* generate_mock_data's entries carry no position (lines 276-321); the entries of
\* _process_parking_spot do (line 178)
is_synthetic(spot) == "position" \notin DOMAIN spot

\* C6: for a completed search, if fewer than 5 real candidates were accepted the
\* stored list has at least one synthetic entry; if 5 or more were, it has none.
C6_BackfillTrigger ==
    turn.path = "search" =>
        LET stored == last_search_of(conversations, turn.session)[1].spots
        IN  IF Len(turn.parking_found[1]) < 5
            THEN \E k \in 1..Len(stored) : is_synthetic(stored[k])
            ELSE \A k \in 1..Len(stored) : ~is_synthetic(stored[k])

\* a completed search that found exactly five real candidates
C6_ExactlyFiveReal ==
    /\ turn.path = "search"
    /\ Len(turn.parking_found[1]) = 5
    /\ Len(last_search_of(conversations, turn.session)[1].spots) = 5

\* a completed search that found real candidates, fewer than five
C6_FewReal ==
    /\ turn.path = "search"
    /\ Len(turn.parking_found[1]) \in 1..4
    /\ turn.mock_data # <<>>

\* C7: the list stored after a completed search is in descending score order,
\* also when synthetic spots were added to fewer than 5 real ones.
C7_StoredSorted ==
    \A session_id \in DOMAIN conversations :
        conversations[session_id].last_parking_search # None =>
            LET spots == conversations[session_id].last_parking_search[1].spots
            IN  \A i, j \in 1..Len(spots) : i < j => spots[i].score >= spots[j].score

\* C8: the spot the follow-up names as overall best, the first of the cached
\* list, has the greatest score of the cached last search result.
C8_OverallBestIsMax ==
    turn.path = "follow_up" =>
        /\ turn.reply[1].overall_best = cached_spots[1].name
        /\ \A k \in 1..Len(cached_spots) : cached_spots[1].score >= cached_spots[k].score

\* the first index of key with the least value
earliest_least(key) ==
    CHOOSE k \in 1..Len(key) :
        /\ \A j \in 1..Len(key) : key[k] <= key[j]
        /\ \A j \in 1..(k - 1) : key[j] > key[k]

\* C9: every follow-up against a cached last search result names the same
\* cheapest and closest spot: the element of the cached list with the least
\* hourly rate and the one with the least walking time, the earliest in list
\* order on ties.
C9_CheapestAndClosest ==
    turn.path = "follow_up" =>
        LET cheapest == cached_spots[earliest_least(
                            [k \in 1..Len(cached_spots) |-> hourly_rate_value(cached_spots[k])])]
            closest  == cached_spots[earliest_least(
                            [k \in 1..Len(cached_spots) |-> cached_spots[k].walking_time])]
        IN  /\ turn.reply[1].cheapest = cheapest.name
            /\ turn.reply[1].cheapest_rate = cheapest.pricing.hourly_rate
            /\ turn.reply[1].closest = closest.name
            /\ turn.reply[1].closest_walk = closest.walking_time

\* a follow-up against a list where several spots have the least hourly rate
C9_TieOnRate ==
    /\ turn.path = "follow_up"
    /\ \E i, j \in 1..Len(cached_spots) :
          /\ i < j
          /\ cached_spots[i].name # cached_spots[j].name
          /\ hourly_rate_value(cached_spots[i]) = hourly_rate_value(cached_spots[j])
          /\ \A k \in 1..Len(cached_spots) :
                hourly_rate_value(cached_spots[i]) <= hourly_rate_value(cached_spots[k])

\* a coordinate in units of 1e-5 degree, rounded to four decimals
rounded_4(x) == IF x < 0 THEN -round_half_even(-x, 10) ELSE round_half_even(x, 10)

\* C10: no two real spots of the list search_parking returns have coordinates
\* that round to the same 4-decimal (lat, lng) key, over the text passes and the
\* category passes together.
C10_NoSharedKey ==
    turn.parking_found # None =>
        LET found == turn.parking_found[1]
        IN  \A i, j \in 1..Len(found) :
                i < j => <<rounded_4(found[i].position.lat), rounded_4(found[i].position.lng)>>
                            # <<rounded_4(found[j].position.lat), rounded_4(found[j].position.lng)>>

-----------------------------------------------------------------------------
(* Properties of one search.  turn.search describes the call of            *)
(* search_parking made by the latest call of process_query: the origin,    *)
(* the behaviour of the places provider, the hour, the calls of            *)
(* _process_parking_spot and the accumulated list before the sort.         *)

Searched == turn.search # None

\* the responses of the places provider to the requests of the latest search
responses_of_turn ==
    PlacesResponses(turn.search[1].scenario, turn.search[1].lat, turn.search[1].lng)

\* a failing pass as the specification lists them: a transport error or timeout,
\* or a status outside 2xx
pass_failed(response) == response.raised \/ response.status \notin 200..299

\* the records a pass returned: none when it failed
returned_by(response) ==
    IF pass_failed(response) \/ response.items = None THEN <<>> ELSE response.items[1]

\* the accumulated list after passes k..last, every non-failing one contributing
\* its valid records that duplicate no accepted spot
RECURSIVE passes_accept(_, _, _)
passes_accept(all_spots, k, last) ==
    IF k > last THEN all_spots
    ELSE passes_accept(
             accept_items(all_spots, returned_by(responses_of_turn[k]),
                          turn.search[1].lat, turn.search[1].lng, turn.search[1].hour),
             k + 1, last)

\* C11: whichever passes fail (transport error, non-2xx status, timeout),
\* search_parking issues every remaining pass in order, and every valid record
\* of a non-failing pass that duplicates no accepted spot is accepted; a failing
\* pass contributes nothing and does not abort the aggregation.
C11_FailingPassesSkipped ==
    Searched =>
        LET after_text == passes_accept(<<>>, 1, 5)
        IN  IF Len(after_text) < 5
            THEN /\ turn.search_calls = 8
                 /\ turn.search[1].all_spots = passes_accept(after_text, 6, 8)
            ELSE /\ turn.search_calls = 5
                 /\ turn.search[1].all_spots = after_text

\* every one of the five text passes and of the three category passes failed
every_pass_failed == \A k \in 1..8 : pass_failed(responses_of_turn[k])

\* C12: when every text pass and every category pass fails, search_parking
\* returns an empty list and the completed search stores exactly the four
\* synthetic backfill spots and no real spot.
C12_TotalFailureBackfills ==
    (Searched /\ every_pass_failed) =>
        LET stored == last_search_of(conversations, turn.session)[1].spots
        IN  /\ turn.parking_found = Some(<<>>)
            /\ turn.search_calls = 8
            /\ Len(turn.mock_data) = 4
            /\ stored = turn.mock_data
            /\ \A k \in 1..Len(stored) : is_synthetic(stored[k])

\* a completed search during which every pass failed, one of them with a
\* status of failure and a body that holds a valid record
C12_AllPassesFailed ==
    /\ turn.path = "search"
    /\ Searched
    /\ every_pass_failed
    /\ \E k \in 1..5 : /\ ~responses_of_turn[k].raised
                       /\ responses_of_turn[k].items # None
                       /\ responses_of_turn[k].items[1] # <<>>

\* the texts process_query returns to the user (lines 354-361, 445, 450, 451,
\* 494, 559, the templated summary and the content of the language model)
ReplyTexts ==
    {"top picks", "trouble finding", "model", "summary", "found, response issues",
     "technical difficulties", "trouble with my response system", "greeting"}

\* C13: for every message and every combination of failures of the geocoder,
\* the search passes and the language model, process_query returns a reply text
\* for the user; no failure is the outcome of the call.
C13_AlwaysAReply ==
    Called =>
        /\ turn.reply # None
        /\ turn.reply[1].kind \in ReplyTexts
        /\ turn.path = "not_found" => turn.reply[1].kind = "trouble finding"
        /\ (turn.model # None /\ (turn.model[1].raised \/ turn.model[1].status >= 400)) =>
              turn.reply[1].kind \in {"found, response issues", "technical difficulties", "greeting"}

\* a search during which every pass and the language model failed
C13_EverythingDown ==
    /\ turn.path = "search"
    /\ Searched
    /\ every_pass_failed
    /\ turn.model # None
    /\ turn.model[1].raised
    /\ turn.reply # None

\* the language model failed: the request raised (exception, timeout), came back
\* with a status of failure, or its payload has no usable content
model_failed(response) ==
    response.raised \/ response.status >= 400 \/ response.choices = <<>>

\* the spots handed to generate_ai_response by the latest search
candidates_of_turn == last_search_of(conversations, turn.session)[1].spots

\* C14: on every kind of failure of the language model on the search path
\* (exception, timeout, or a payload with no usable content), the reply is the
\* templated summary of the top 5 candidates when there are candidates, and the
\* fixed apology otherwise.
C14_FallbackIsSummary ==
    (turn.path = "search" /\ model_failed(turn.model[1])) =>
        IF candidates_of_turn # <<>>
        THEN /\ turn.reply[1].kind = "summary"
             /\ turn.reply[1].items =
                   [k \in 1..Min(5, Len(candidates_of_turn)) |-> summary_item(candidates_of_turn[k])]
        ELSE turn.reply[1].kind = "trouble with my response system"

\* C15: every spot of a stored search result carries an explicit marker that
\* tells synthetic from real: isSynthetic is true on the spots of
\* generate_mock_data and false on the spots of _process_parking_spot.
C15_MarkerOnEverySpot ==
    \A session_id \in DOMAIN conversations :
        conversations[session_id].last_parking_search # None =>
            LET spots == conversations[session_id].last_parking_search[1].spots
            IN  \A k \in 1..Len(spots) :
                    /\ "isSynthetic" \in DOMAIN spots[k]
                    /\ spots[k].isSynthetic = is_synthetic(spots[k])

\* the calls of _process_parking_spot of the latest search
calls_of_turn == turn.search[1].calls

\* the availability the specification gives for a parking type at an hour
availability_by_window(parking_type, hour) ==
    IF 8 <= hour /\ hour < 18
    THEN (IF parking_type = "on-street-parking" THEN "Limited" ELSE "Good")
    ELSE "Excellent"

\* C16: at every hour and for every parking type the availability estimate is
\* Limited for on-street parking and Good for the other types when the hour is
\* in [8,18), and Excellent for every type at every other hour, hour 18 included.
C16_AvailabilityWindow ==
    Searched =>
        \A k \in 1..Len(calls_of_turn) :
            calls_of_turn[k].spot_data # None =>
                calls_of_turn[k].spot_data[1].availability
                    = availability_by_window(calls_of_turn[k].spot_data[1].parking_type,
                                             turn.search[1].hour)

\* the keywords of a parking place as the specification lists them
ParkingKeywords == {<<"p","a","r","k">>, <<"g","a","r","a","g","e">>, <<"c","a","r">>, <<"s","p","a","c","e">>, <<"c","h","a","r","g","i","n","g">>}

\* the distance in metres of a raw record from the origin of the latest search
distance_from_origin(spot) ==
    _calculate_distance(turn.search[1].lat, turn.search[1].lng,
                        spot.position.lat, spot.position.lng)

\* a raw record the specification has the normalizer reject
to_reject(spot) ==
    \/ spot.title = <<>>
    \/ distance_from_origin(spot) > 3000
    \/ \A term \in ParkingKeywords : ~Contains(term, lower(spot.title))

\* C17: _process_parking_spot rejects a raw record if and only if it has no
\* non-empty title, or it is more than 3000 m from the origin (a record at
\* exactly 3000 m is not rejected for distance), or its title contains none of
\* park, garage, car, space, charging in any letter case; a rejected record is
\* absent from the result and every other record yields a spot.
C17_RejectionRule ==
    Searched =>
        \A k \in 1..Len(calls_of_turn) :
            LET spot == calls_of_turn[k].spot
            IN  IF to_reject(spot)
                THEN /\ calls_of_turn[k].spot_data = None
                     /\ \A n \in 1..Len(turn.search[1].all_spots) :
                            ~ (/\ turn.search[1].all_spots[n].name = spot.title
                               /\ turn.search[1].all_spots[n].position = spot.position)
                ELSE /\ calls_of_turn[k].spot_data # None
                     /\ calls_of_turn[k].spot_data[1].name = spot.title
                     /\ calls_of_turn[k].spot_data[1].distance = distance_from_origin(spot)

\* a search that read a record at exactly 3000 m and kept it, a record farther
\* than 3000 m, and a record within 3000 m whose title has no keyword
C17_BoundaryRecords ==
    /\ Searched
    /\ \E k \in 1..Len(calls_of_turn) :
          /\ calls_of_turn[k].spot_data # None
          /\ calls_of_turn[k].spot_data[1].distance = 3000
    /\ \E k \in 1..Len(calls_of_turn) :
          /\ calls_of_turn[k].spot_data = None
          /\ distance_from_origin(calls_of_turn[k].spot) = 3001
    /\ \E k \in 1..Len(calls_of_turn) :
          /\ calls_of_turn[k].spot_data = None
          /\ calls_of_turn[k].spot.title # <<>>
          /\ distance_from_origin(calls_of_turn[k].spot) <= 3000

\* the score the specification gives a real spot
score_by_rule(spot) ==
    LET for_distance == IF spot.distance < 200 THEN 25
                        ELSE IF spot.distance < 500 THEN 20
                        ELSE IF spot.distance < 1000 THEN 15
                        ELSE 0
        for_type     == IF spot.parking_type = "parking-garage" THEN 10
                        ELSE IF spot.parking_type = "ev-charging" THEN 15
                        ELSE 0
        sum          == 50 + for_distance + for_type
    IN  IF sum < 0 THEN 0 ELSE IF sum > 100 THEN 100 ELSE sum

\* C18: every spot of a stored search result, real or synthetic, has a score in
\* [0,100]; the score of a real spot is 50, plus 25, 20, 15 or 0 for a distance
\* under 200, under 500, under 1000 or beyond, plus 10 for a garage or 15 for
\* ev-charging, clamped to [0,100].
C18_ScoreRule ==
    /\ \A session_id \in DOMAIN conversations :
          conversations[session_id].last_parking_search # None =>
              LET spots == conversations[session_id].last_parking_search[1].spots
              IN  \A k \in 1..Len(spots) :
                      /\ spots[k].score \in 0..100
                      /\ ~is_synthetic(spots[k]) => spots[k].score = score_by_rule(spots[k])
    /\ Searched =>
          \A k \in 1..Len(calls_of_turn) :
              calls_of_turn[k].spot_data # None =>
                  calls_of_turn[k].spot_data[1].score = score_by_rule(calls_of_turn[k].spot_data[1])

\* a search that normalized spots at exactly 200 m, 500 m and 1000 m, a garage
\* and a charging place, and stored real spots
C18_StepBoundaries ==
    /\ Searched
    /\ \A d \in {200, 500, 1000} :
          \E k \in 1..Len(calls_of_turn) :
              /\ calls_of_turn[k].spot_data # None
              /\ calls_of_turn[k].spot_data[1].distance = d
    /\ \A t \in {"parking-garage", "ev-charging"} :
          \E k \in 1..Len(candidates_of_turn) :
              /\ ~is_synthetic(candidates_of_turn[k])
              /\ candidates_of_turn[k].parking_type = t

\* the 4-decimal coordinate key of a spot
cell_of(spot) == <<rounded_4(spot.position.lat), rounded_4(spot.position.lng)>>

\* the normalized spots of calls k.. that share the key of no spot accepted
\* before them, appended to accepted in the order of the calls
RECURSIVE first_seen(_, _)
first_seen(accepted, k) ==
    IF k > Len(calls_of_turn) THEN accepted
    ELSE IF \/ calls_of_turn[k].spot_data = None
            \/ \E n \in 1..Len(accepted) : cell_of(accepted[n]) = cell_of(calls_of_turn[k].spot_data[1])
    THEN first_seen(accepted, k + 1)
    ELSE first_seen(Append(accepted, calls_of_turn[k].spot_data[1]), k + 1)

\* C19: during aggregation a normalized spot is dropped if and only if a spot
\* accepted earlier has the same 4-decimal coordinate key; the accepted spot
\* keeps the name, type and score of the record seen first, and a later
\* duplicate neither replaces nor changes it.
C19_FirstSeenWins ==
    Searched => turn.search[1].all_spots = first_seen(<<>>, 1)

\* the accepted spots of the latest search in the order of their discovery
accepted_of_turn == turn.search[1].all_spots

\* the place of the i-th accepted spot when the accepted spots are ordered by
\* score descending and, for equal scores, by discovery
place_of(i) ==
    1 + Cardinality({j \in 1..Len(accepted_of_turn) :
                        \/ accepted_of_turn[j].score > accepted_of_turn[i].score
                        \/ /\ accepted_of_turn[j].score = accepted_of_turn[i].score
                           /\ j < i})

\* C20: the list search_parking returns is the first 10 of the accepted spots
\* ordered by score descending, spots of equal score keeping their order of
\* discovery (earlier pass, earlier position first).
C20_StableTopTen ==
    Searched =>
        /\ Len(turn.parking_found[1]) = Min(10, Len(accepted_of_turn))
        /\ \A i \in 1..Len(accepted_of_turn) :
              place_of(i) <= 10 => turn.parking_found[1][place_of(i)] = accepted_of_turn[i]

\* a search that accepted more than ten spots, not in score order, with spots
\* of equal score on both sides of the cut
C20_TiesAndCut ==
    /\ Searched
    /\ Len(accepted_of_turn) > 10
    /\ \E i, j \in 1..Len(accepted_of_turn) :
          i < j /\ accepted_of_turn[i].score < accepted_of_turn[j].score
    /\ \E i, j \in 1..Len(accepted_of_turn) :
          /\ i < j
          /\ accepted_of_turn[i].score = accepted_of_turn[j].score
          /\ place_of(i) <= 10
          /\ place_of(j) > 10

\* the requests the latest search sent to the places provider, in order
sent_of_turn == turn.search[1].sent

\* the number of spots accepted when the five text passes have finished
accepted_by_text == Len(passes_accept(<<>>, 1, 5))

\* the category passes come after the five text passes, and only when the text
\* passes accepted by_text < 5 spots
category_after_text(by_text) ==
    /\ turn.search_calls = Len(sent_of_turn)
    /\ Len(sent_of_turn) >= 5
    /\ \A k \in 1..5 : sent_of_turn[k].param = "q"
    /\ \A k \in 1..Len(sent_of_turn) :
          sent_of_turn[k].param = "categories" =>
              /\ k > 5
              /\ by_text < 5
              /\ sent_of_turn[k].accepted_before >= by_text
    /\ by_text >= 5 =>
          \A k \in 1..Len(sent_of_turn) : sent_of_turn[k].param # "categories"

\* C21: a category pass is issued only after all five text passes have
\* finished, and only if fewer than 5 records were accepted by then; when the
\* text passes accepted 5 or more, no category pass is issued.
C21_BackupAfterText == Searched => category_after_text(accepted_by_text)

\* a search whose text passes accepted exactly five spots, the last of them in
\* a pass that is not the last one
C21_ExactlyFiveByText ==
    /\ Searched
    /\ accepted_by_text = 5
    /\ sent_of_turn[4].accepted_before = 5
    /\ Len(sent_of_turn) = 5

\* does the title contain one of the keywords, in any letter case
has_keyword(title, keywords) == \E term \in keywords : Contains(term, lower(title))

\* the parking type the specification gives a title: the first match in the
\* order garage, street, ev
type_by_first_match(title) ==
    IF has_keyword(title, {<<"g","a","r","a","g","e">>, <<"m","u","l","t","i">>, <<"s","t","o","r","y">>}) THEN "parking-garage"
    ELSE IF has_keyword(title, {<<"s","t","r","e","e","t">>, <<"r","o","a","d">>, <<"m","e","t","e","r">>}) THEN "on-street-parking"
    ELSE IF has_keyword(title, {<<"e","l","e","c","t","r","i","c">>, <<"e","v">>, <<"c","h","a","r","g","i","n","g">>}) THEN "ev-charging"
    ELSE "parking-lot"

\* C22: _process_parking_spot assigns the parking type by first match in a
\* fixed order: a title with a garage keyword (garage, multi, story) is
\* parking-garage even if it also has street or ev keywords; else a title with
\* a street keyword (street, road, meter) is on-street-parking even if it also
\* has ev keywords; else a title with an ev keyword (electric, ev, charging) is
\* ev-charging; else parking-lot.
C22_TypeByFirstMatch ==
    Searched =>
        \A k \in 1..Len(calls_of_turn) :
            calls_of_turn[k].spot_data # None =>
                calls_of_turn[k].spot_data[1].parking_type
                    = type_by_first_match(calls_of_turn[k].spot.title)

\* a search that normalized a title with garage, street and ev keywords, a
\* title with street and ev keywords, a title with an ev keyword only, and a
\* title with none of them
C22_OverlappingKeywords ==
    /\ Searched
    /\ \E k \in 1..Len(calls_of_turn) :
          /\ calls_of_turn[k].spot_data # None
          /\ has_keyword(calls_of_turn[k].spot.title, {<<"g","a","r","a","g","e">>})
          /\ has_keyword(calls_of_turn[k].spot.title, {<<"r","o","a","d">>})
          /\ has_keyword(calls_of_turn[k].spot.title, {<<"e","v">>})
          /\ calls_of_turn[k].spot_data[1].parking_type = "parking-garage"
    /\ \E k \in 1..Len(calls_of_turn) :
          /\ calls_of_turn[k].spot_data # None
          /\ has_keyword(calls_of_turn[k].spot.title, {<<"s","t","r","e","e","t">>})
          /\ has_keyword(calls_of_turn[k].spot.title, {<<"e","l","e","c","t","r","i","c">>})
          /\ calls_of_turn[k].spot_data[1].parking_type = "on-street-parking"
    /\ \E k \in 1..Len(calls_of_turn) :
          /\ calls_of_turn[k].spot_data # None
          /\ calls_of_turn[k].spot_data[1].parking_type = "ev-charging"
    /\ \E k \in 1..Len(calls_of_turn) :
          /\ calls_of_turn[k].spot_data # None
          /\ calls_of_turn[k].spot_data[1].parking_type = "parking-lot"

\* C23: in every reachable state the last search result of a session is either
\* unset or holds between 4 and 10 spots, so the follow-up never reads the
\* first element or a minimum of an empty list.
C23_CachedListNotEmpty ==
    /\ \A session_id \in DOMAIN conversations :
          conversations[session_id].last_parking_search # None =>
              Len(conversations[session_id].last_parking_search[1].spots) \in 4..10
    /\ turn.path = "follow_up" =>
          /\ last_search_of(turn.before, turn.session) # None
          /\ Len(cached_spots) \in 4..10

\* a follow-up answered from the shortest list a search stores: no real spot,
\* four synthetic ones
C23_FollowUpOnFour ==
    /\ turn.path = "follow_up"
    /\ Len(cached_spots) = 4
    /\ \A k \in 1..Len(cached_spots) : is_synthetic(cached_spots[k])

\* the message of the latest call asks for a recommendation
asks_follow_up == \E word \in FollowUpVocabulary : Contains(word, lower(turn.user_input))

\* C24: processing a message for one session leaves the history and the last
\* search result of every other session unchanged, and a follow-up in one
\* session is answered only from the cached result of that session, never from
\* the search of another session.
C24_SessionsIsolated ==
    Called =>
        /\ DOMAIN conversations = DOMAIN turn.before \cup {turn.session}
        /\ \A other \in DOMAIN turn.before :
              other # turn.session => conversations[other] = turn.before[other]
        /\ turn.path = "follow_up" =>
              /\ last_search_of(turn.before, turn.session) # None
              /\ turn.reply[1].location = last_search_of(turn.before, turn.session)[1].location
              /\ turn.reply[1].overall_best = cached_spots[1].name
        /\ (asks_follow_up /\ last_search_of(turn.before, turn.session) = None) =>
              turn.path # "follow_up"

\* a request for a recommendation in a session without a search while another
\* session has one cached
C24_AskInFreshSession ==
    /\ Called
    /\ asks_follow_up
    /\ last_search_of(turn.before, turn.session) = None
    /\ \E other \in DOMAIN turn.before :
          /\ other # turn.session
          /\ turn.before[other].last_parking_search # None
          /\ turn.before[other].history # <<>>

-----------------------------------------------------------------------------
(* Properties of requests served at the same time                          *)

\* both threads have finished a call for the same session, which did not exist
\* when either of them was called
both_created(t1, t2) ==
    /\ t1 # t2
    /\ threads[t1].pc = "done" /\ threads[t2].pc = "done"
    /\ threads[t1].session = threads[t2].session
    /\ threads[t1].fresh /\ threads[t2].fresh

\* C25: when two calls of process_query for the same session that does not
\* exist yet run at the same time, the lazy creation of the session discards
\* nothing the other call recorded: after both calls the history of the session
\* holds the turns of both, and a search result stored by either is not unset.
C25_CreationKeepsState ==
    \A t1, t2 \in Threads :
        both_created(t1, t2) =>
            LET session == conversations[threads[t1].session]
            IN  /\ \A t \in {t1, t2} :
                      threads[t].appended # None =>
                          \E k \in 1..Len(session.history) :
                              session.history[k] = threads[t].appended[1]
                /\ Len(session.history)
                      >= Cardinality({t \in {t1, t2} : threads[t].appended # None})
                /\ (threads[t1].stored \/ threads[t2].stored) =>
                      session.last_parking_search # None
====
